---------------------------- MODULE Spec2Model ----------------------------
(***************************************************************************)
(* Transaction lifecycle controller of the Lyra interface (useTransaction).*)
(* The module models                                                       *)
(*   - the error classifier  extractError / formatErrorReason / handleError*)
(*   - the gas estimator     getRawTxGasLimit / getContractTxGasLimit      *)
(*   - the receipt poller    pollReceipt                                   *)
(*   - the controller        the async callback returned by useTransaction *)
(* Strings that the code inspects character by character (toLowerCase,     *)
(* includes) are sequences of one-character strings.                       *)
(***************************************************************************)
EXTENDS Integers, Sequences, FiniteSets, TLC

VARIABLES
    pc,         \* position of the invocation inside the async callback
    wallet,     \* useWallet(): [signer, account] presence
    network,    \* the Network the hook was created for
    config,     \* getNetworkConfig(network): [minGas, maxGas, gasBuffer]
    txInputs,   \* the caller's Transaction object (tx.gasLimit is assigned at line 411)
    options,    \* TransactionOptions: which callbacks the caller supplied
    toast,      \* the notification: handles created, state, description, link
    calls,      \* external calls issued so far, in order
    gas,        \* gas-limit step: estimation calls, computed limit, limit submitted
    poll,       \* pollReceipt closure: n, lookups performed, clock
    receipt,    \* what the polling promise resolved with
    failure,    \* arguments and classification of the handleError call, if any
    ret,        \* how the promise of the callback settled
    raw,        \* standalone classification: the raw error given to extractError
    boundContract, \* standalone classification: options.contract
    extracted,  \* standalone classification: the result of extractError
    toasts,     \* the store of the Toast module: one notification per handle id
    toastId,    \* the const toastId of the invocation (0 before line 356)
    parked      \* the locals of the other in-flight invocation, if there is one

vars == <<pc, wallet, network, config, txInputs, options, toast, calls, gas, poll,
          receipt, failure, ret, raw, boundContract, extracted, toasts, toastId, parked>>

-----------------------------------------------------------------------------
(* String literals of the source, as character sequences.                  *)

\* NAME_TOTAL_COST: the string literal at line 108
NAME_TOTAL_COST ==
    <<"T","o","t","a","l","C","o","s","t","O","u","t","s","i","d","e","O","f","S","p","e","c",
      "i","f","i","e","d","B","o","u","n","d","s">>

\* MSG_USER_DENIED: the string literal at line 110
MSG_USER_DENIED ==
    <<"U","s","e","r"," ","d","e","n","i","e","d"," ","t","r","a","n","s","a","c","t","i","o",
      "n"," ","s","i","g","n","a","t","u","r","e">>

\* MSG_USER_REJECTED: the string literal at line 111
MSG_USER_REJECTED ==
    <<"U","s","e","r"," ","r","e","j","e","c","t","e","d"," ","t","r","a","n","s","a","c","t",
      "i","o","n">>

\* MSG_LOADING_DEFAULTS: the string literal at line 112
MSG_LOADING_DEFAULTS ==
    <<"C","a","n","n","o","t"," ","s","e","t"," ","p","r","o","p","e","r","t","i","e","s"," ",
      "o","f"," ","u","n","d","e","f","i","n","e","d"," ","(","s","e","t","t","i","n","g"," ",
      "'","l","o","a","d","i","n","g","D","e","f","a","u","l","t","s","'",")">>

\* STR_ACTION_REJECTED: the string literal at line 113
STR_ACTION_REJECTED ==
    <<"A","C","T","I","O","N","_","R","E","J","E","C","T","E","D">>

\* MSG_NOT_ENOUGH_FUNDS: the string literal at line 117
MSG_NOT_ENOUGH_FUNDS ==
    <<"N","o","t"," ","e","n","o","u","g","h"," ","f","u","n","d","s"," ","f","o","r"," ","g",
      "a","s">>

\* MSG_INSUFFICIENT_GAS_FUNDS: the string literal at line 118
MSG_INSUFFICIENT_GAS_FUNDS ==
    <<"F","a","i","l","e","d"," ","t","o"," ","e","x","e","c","u","t","e"," ","c","a","l","l",
      " ","w","i","t","h"," ","r","e","v","e","r","t"," ","c","o","d","e"," ","I","n","s","u",
      "f","f","i","c","i","e","n","t","G","a","s","F","u","n","d","s">>

\* MSG_NETWORK_CHANGED: the string literal at line 120
MSG_NETWORK_CHANGED ==
    <<"U","n","d","e","r","l","y","i","n","g"," ","n","e","t","w","o","r","k"," ","c","h","a",
      "n","g","e","d">>

\* MSG_NON_200: the string literal at line 124
MSG_NON_200 ==
    <<"N","o","n","-","2","0","0"," ","s","t","a","t","u","s"," ","c","o","d","e">>

\* MSG_REQUEST_LIMIT: the string literal at line 125
MSG_REQUEST_LIMIT ==
    <<"R","e","q","u","e","s","t"," ","l","i","m","i","t"," ","e","x","c","e","e","d","e","d">>

\* MSG_INTERNAL_JSON_RPC: the string literal at line 126
MSG_INTERNAL_JSON_RPC ==
    <<"I","n","t","e","r","n","a","l"," ","j","s","o","n","-","r","p","c"," ","e","r","r","o",
      "r">>

\* MSG_NO_ERROR_OR_RESULT: the string literal at line 127
MSG_NO_ERROR_OR_RESULT ==
    <<"R","e","s","p","o","n","s","e"," ","h","a","s"," ","n","o"," ","e","r","r","o","r"," ",
      "o","r"," ","r","e","s","u","l","t">>

\* MSG_CANT_EXECUTE: the string literal at line 128
MSG_CANT_EXECUTE ==
    <<"W","e"," ","c","a","n","'","t"," ","e","x","e","c","u","t","e"," ","t","h","i","s"," ",
      "r","e","q","u","e","s","t">>

\* MSG_COULDNT_CONNECT: the string literal at line 129
MSG_COULDNT_CONNECT ==
    <<"C","o","u","l","d","n","'","t"," ","c","o","n","n","e","c","t"," ","t","o"," ","t","h",
      "e"," ","n","e","t","w","o","r","k">>

\* MSG_TRANSACTION_REVERTED: the string literal at line 466
MSG_TRANSACTION_REVERTED ==
    <<"T","r","a","n","s","a","c","t","i","o","n"," ","r","e","v","e","r","t","e","d">>

UpperLetters ==
    <<"A","B","C","D","E","F","G","H","I","J","K","L","M","N","O","P","Q","R","S","T","U","V",
      "W","X","Y","Z">>

LowerLetters ==
    <<"a","b","c","d","e","f","g","h","i","j","k","l","m","n","o","p","q","r","s","t","u","v",
      "w","x","y","z">>

\* sample strings seen in wallet and provider errors and decoded error names
SampleDeniedWrapped ==
    <<"M","e","t","a","M","a","s","k"," ","T","x"," ","S","i","g","n","a","t","u","r","e",":",
      " ","U","s","e","r"," ","d","e","n","i","e","d"," ","t","r","a","n","s","a","c","t","i",
      "o","n"," ","s","i","g","n","a","t","u","r","e",".">>

SampleRejectedUpper ==
    <<"U","S","E","R"," ","R","E","J","E","C","T","E","D"," ","T","R","A","N","S","A","C","T",
      "I","O","N">>

SampleRejectedLower ==
    <<"u","s","e","r"," ","r","e","j","e","c","t","e","d"," ","t","r","a","n","s","a","c","t",
      "i","o","n"," ","(","a","c","t","i","o","n","=","\"","s","e","n","d","T","r","a","n","s",
      "a","c","t","i","o","n","\"",")">>

SampleRejectedNearMiss ==
    <<"U","s","e","r"," ","r","e","j","e","c","t","e","d"," ","t","h","e"," ","t","r","a","n",
      "s","a","c","t","i","o","n">>

SampleExecutionReverted ==
    <<"e","x","e","c","u","t","i","o","n"," ","r","e","v","e","r","t","e","d">>

SampleUnderflow ==
    <<"u","n","d","e","r","f","l","o","w">>

SampleRateLimited ==
    <<"R","e","q","u","e","s","t"," ","L","i","m","i","t"," ","E","x","c","e","e","d","e","d",
      ","," ","r","e","t","r","y"," ","l","a","t","e","r">>

SampleNoFunds ==
    <<"e","r","r",":"," ","n","o","t"," ","e","n","o","u","g","h"," ","f","u","n","d","s"," ",
      "f","o","r"," ","g","a","s">>

LowerUserRejected ==
    <<"u","s","e","r"," ","r","e","j","e","c","t","e","d"," ","t","r","a","n","s","a","c","t",
      "i","o","n">>

SampleNameWrapped ==
    <<"O","p","t","i","o","n","M","a","r","k","e","t","_","T","o","t","a","l","C","o","s","t",
      "O","u","t","s","i","d","e","O","f","S","p","e","c","i","f","i","e","d","B","o","u","n",
      "d","s">>

SampleNameOther ==
    <<"T","r","a","d","i","n","g","C","u","t","o","f","f","R","e","a","c","h","e","d">>
-----------------------------------------------------------------------------
(* JavaScript values used by the classifier.                               *)

\* an absent / undefined string-valued property
UndefinedStr == [def |-> FALSE, str |-> <<>>]
Str(s) == [def |-> TRUE, str |-> s]

\* error codes are numbers or strings; === never converts between them
UndefinedCode == [kind |-> "undefined", num |-> 0, str |-> <<>>]
NumCode(n) == [kind |-> "number", num |-> n, str |-> <<>>]
StrCode(s) == [kind |-> "string", num |-> 0, str |-> s]

\* JavaScript truthiness of the values above
TruthyStr(s) == s.def /\ s.str # <<>>
TruthyCode(c) ==
    \/ c.kind = "number" /\ c.num # 0
    \/ c.kind = "string" /\ c.str # <<>>

\* String.prototype.toLowerCase on the ASCII letters
LowerOf ==
    [c \in {UpperLetters[i] : i \in 1..Len(UpperLetters)} |->
        LowerLetters[CHOOSE i \in 1..Len(UpperLetters) : UpperLetters[i] = c]]
LowerChar(c) == IF c \in DOMAIN LowerOf THEN LowerOf[c] ELSE c
toLowerCase(s) == [i \in 1..Len(s) |-> LowerChar(s[i])]

\* String.prototype.includes
includes(s, p) ==
    \E i \in 0..(Len(s) - Len(p)) : SubSeq(s, i + 1, i + Len(p)) = p

-----------------------------------------------------------------------------
(* TransactionErrorReason and the pattern table.                           *)

TradeSlippage == "TradeSlippage"
UserDenied == "UserDenied"
NotEnoughFunds == "NotEnoughFunds"
NetworkChanged == "NetworkChanged"
RpcError == "RpcError"
\* reason property absent from the classified error
NoReason == "undefined"

GasEstimate == "GasEstimate"
Wallet == "Wallet"
Reverted == "Reverted"

MessagePattern(m) == [message |-> Str(m), code |-> UndefinedCode, name |-> UndefinedStr]
CodePattern(c) == [message |-> UndefinedStr, code |-> c, name |-> UndefinedStr]
NamePattern(n) == [message |-> UndefinedStr, code |-> UndefinedCode, name |-> Str(n)]

\* the table with the RpcError entry inserted first
TX_ERROR_PATTERNS_RpcFirst ==
    << <<RpcError, << CodePattern(NumCode(0 - 32005)),
                      MessagePattern(MSG_NON_200),
                      MessagePattern(MSG_REQUEST_LIMIT),
                      MessagePattern(MSG_INTERNAL_JSON_RPC),
                      MessagePattern(MSG_NO_ERROR_OR_RESULT),
                      MessagePattern(MSG_CANT_EXECUTE),
                      MessagePattern(MSG_COULDNT_CONNECT) >> >>,
       <<TradeSlippage, << NamePattern(NAME_TOTAL_COST) >> >>,
       <<UserDenied, << MessagePattern(MSG_USER_DENIED),
                        MessagePattern(MSG_USER_REJECTED),
                        MessagePattern(MSG_LOADING_DEFAULTS),
                        CodePattern(StrCode(STR_ACTION_REJECTED)),
                        CodePattern(NumCode(4001)) >> >>,
       <<NotEnoughFunds, << MessagePattern(MSG_NOT_ENOUGH_FUNDS),
                            MessagePattern(MSG_INSUFFICIENT_GAS_FUNDS) >> >>,
       <<NetworkChanged, << MessagePattern(MSG_NETWORK_CHANGED) >> >> >>

\* Object.entries(TX_ERROR_PATTERNS): string keys in insertion order
TX_ERROR_PATTERNS ==
    << <<TradeSlippage, << NamePattern(NAME_TOTAL_COST) >> >>,
       <<UserDenied, << MessagePattern(MSG_USER_DENIED),
                        MessagePattern(MSG_USER_REJECTED),
                        MessagePattern(MSG_LOADING_DEFAULTS),
                        CodePattern(StrCode(STR_ACTION_REJECTED)),
                        CodePattern(NumCode(4001)) >> >>,
       <<NotEnoughFunds, << MessagePattern(MSG_NOT_ENOUGH_FUNDS),
                            MessagePattern(MSG_INSUFFICIENT_GAS_FUNDS) >> >>,
       <<NetworkChanged, << MessagePattern(MSG_NETWORK_CHANGED) >> >>,
       <<RpcError, << CodePattern(NumCode(0 - 32005)),
                      MessagePattern(MSG_NON_200),
                      MessagePattern(MSG_REQUEST_LIMIT),
                      MessagePattern(MSG_INTERNAL_JSON_RPC),
                      MessagePattern(MSG_NO_ERROR_OR_RESULT),
                      MessagePattern(MSG_CANT_EXECUTE),
                      MessagePattern(MSG_COULDNT_CONNECT) >> >> >>

-----------------------------------------------------------------------------
(* Raw errors.  A raw error is the chain rawError, rawError.error,          *)
(* rawError.error.error, ... as a sequence of layers, outermost first; the  *)
(* empty sequence is an undefined rawError.  A layer carries the properties *)
(* the classifier reads: code, message, data and data.data.                 *)

UndefinedData == ""
Layer(c, m, d, dd) == [code |-> c, message |-> m, data |-> d, dataData |-> dd]
UndefinedLayer == Layer(UndefinedCode, UndefinedStr, UndefinedData, UndefinedData)

\* unwrapping one envelope only: rawError?.error ?? rawError
Unwrap_OneLevel(rawError) ==
    IF Len(rawError) >= 2 THEN rawError[2]
    ELSE IF Len(rawError) = 1 THEN rawError[1]
    ELSE UndefinedLayer

\* rawError?.error?.error ?? rawError?.error ?? rawError
Unwrap(rawError) ==
    IF Len(rawError) >= 3 THEN rawError[3]
    ELSE IF Len(rawError) = 2 THEN rawError[2]
    ELSE IF Len(rawError) = 1 THEN rawError[1]
    ELSE UndefinedLayer

\* error?.data?.data ?? error?.data
ErrorData(error) ==
    IF error.dataData # UndefinedData THEN error.dataData ELSE error.data

\* contract.interface.parseError(data): the ErrorDescription of the custom
\* error whose selector starts the data, or a throw.  A contract is the
\* function from the data it can decode to the decoded error name.
UndefinedContract == [def |-> FALSE, errors |-> <<>>]
NullDescription == [def |-> FALSE, name |-> <<>>]
parseError(contract, data) ==
    IF \E i \in 1..Len(contract.errors) : contract.errors[i][1] = data
    THEN [def |-> TRUE,
          name |-> contract.errors[CHOOSE i \in 1..Len(contract.errors) :
                                       contract.errors[i][1] = data][2]]
    ELSE NullDescription

\* lines 197-203: decode only when data is truthy and a contract is given;
\* a throw of parseError leaves the description null
ErrorDescription(errorData, contract) ==
    IF errorData # UndefinedData /\ contract.def
    THEN parseError(contract, errorData)
    ELSE NullDescription

\* lines 209-214: one pattern against the extracted fields
PatternMatches(pattern, errorCode, errorMessage, errorDescription) ==
    LET matchCode == TruthyCode(pattern.code) /\ errorCode = pattern.code
        matchMessage ==
            /\ TruthyStr(pattern.message)
            /\ TruthyStr(errorMessage)
            /\ includes(toLowerCase(errorMessage.str), toLowerCase(pattern.message.str))
        matchName ==
            /\ TruthyStr(pattern.name)
            /\ errorDescription.def
            /\ includes(toLowerCase(errorDescription.name), toLowerCase(pattern.name.str))
    IN  matchCode \/ matchMessage \/ matchName

\* lines 207-224: does any pattern of the table entry match
EntryMatches(entry, errorCode, errorMessage, errorDescription) ==
    \E j \in 1..Len(entry[2]) :
        PatternMatches(entry[2][j], errorCode, errorMessage, errorDescription)

\* lines 207-231: the loop over Object.entries(TX_ERROR_PATTERNS) from entry i
\* on; the first entry with a matching pattern returns its reason
RECURSIVE ReasonFrom(_, _, _, _, _)
ReasonFrom(table, i, errorCode, errorMessage, errorDescription) ==
    IF i > Len(table) THEN NoReason
    ELSE IF EntryMatches(table[i], errorCode, errorMessage, errorDescription)
    THEN table[i][1]
    ELSE ReasonFrom(table, i + 1, errorCode, errorMessage, errorDescription)

extractError(rawError, contract) ==
    LET error == Unwrap(rawError)
        errorCode == error.code
        errorData == ErrorData(error)
        errorDescription == ErrorDescription(errorData, contract)
        errorMessage == error.message
    IN  [code |-> errorCode,
         message |-> errorMessage,
         data |-> errorData,
         description |-> errorDescription,
         reason |-> ReasonFrom(TX_ERROR_PATTERNS, 1, errorCode, errorMessage, errorDescription)]

-----------------------------------------------------------------------------
(* Constants of the controller.                                            *)

DEFAULT_TOAST_INFO_TIMEOUT == 5000
DEFAULT_TOAST_ERROR_TIMEOUT == 10000
POLL_INTERVAL == 250
\* the literal of the retry test n < 100 in pollReceipt
MAX_RETRIES == 100
\* TransactionStatus
Failure == 0
Success == 1

\* bounds of the model's inputs
MaxEstimate == 5
MaxExplicitGas == 8

-----------------------------------------------------------------------------
(* Gas estimator.                                                          *)

\* an optional BigNumber (tx.gasLimit, options?.gasLimit)
UndefinedGas == [def |-> FALSE, val |-> 0]
Gas(v) == [def |-> TRUE, val |-> v]

\* Math.max(1, gasBuffer), gasBuffer being the rational num/den
MaxOne(gasBuffer) ==
    IF gasBuffer.num < gasBuffer.den THEN [num |-> 1, den |-> 1] ELSE gasBuffer

\* estimate.mul(10000 * Math.max(1, config.gasBuffer)).div(10000):
\* BigNumber.mul converts its argument with BigNumber.from, which throws
\* NUMERIC_FAULT for a number that is not an integer; div truncates
Buffered(estimate, gasBuffer) ==
    LET b == MaxOne(gasBuffer)
    IN  IF (10000 * b.num) % b.den = 0
        THEN [threw |-> FALSE, val |-> (estimate * ((10000 * b.num) \div b.den)) \div 10000]
        ELSE [threw |-> TRUE, val |-> 0]

\* clamping without the maxGas test
Clamp_NoUpperBound(gasLimit, cfg) ==
    IF gasLimit < cfg.minGas THEN cfg.minGas ELSE gasLimit

\* lines 304-310 and 324-330
Clamp(gasLimit, cfg) ==
    IF gasLimit < cfg.minGas THEN cfg.minGas
    ELSE IF gasLimit > cfg.maxGas THEN cfg.maxGas
    ELSE gasLimit

\* the error BigNumber.from throws; it has no nested error, data or known code
StrNumericFault == <<"N","U","M","E","R","I","C","_","F","A","U","L","T">>
NumericFault ==
    << Layer(StrCode(StrNumericFault), Str(SampleUnderflow), UndefinedData, UndefinedData) >>

\* outcome of awaiting the estimation primitive: a value or a thrown raw error
Estimated(v) == [threw |-> FALSE, val |-> v, rawError |-> <<>>]
EstimateThrew(e) == [threw |-> TRUE, val |-> 0, rawError |-> e]

\* the common body of the two gas-limit functions: explicit ?? buffered
\* estimate, then the two clamping tests; a throw of the estimation primitive
\* or of BigNumber.mul leaves the function as a rejection
GasLimitOf(explicit, estimate, cfg) ==
    IF explicit.def THEN Estimated(Clamp(explicit.val, cfg))
    ELSE IF estimate.threw THEN estimate
    ELSE LET buffered == Buffered(estimate.val, cfg.gasBuffer)
         IN  IF buffered.threw THEN EstimateThrew(NumericFault)
             ELSE Estimated(Clamp(buffered.val, cfg))

\* tx.gasLimit ?? (await provider.estimateGas(tx))...; estimate is what the
\* awaited provider.estimateGas settles with when it is called
getRawTxGasLimit(cfg, tx, estimate) == GasLimitOf(tx.gasLimit, estimate, cfg)

\* options?.gasLimit ?? (await contract.estimateGas[method](...params))...
getContractTxGasLimit(cfg, opts, estimate) == GasLimitOf(opts.gasLimit, estimate, cfg)

\* estimation called before the explicit limit is looked at
CallsEstimate_Always(explicit) == TRUE

\* whether the gas-limit function calls the estimation primitive
CallsEstimate(explicit) == ~explicit.def

-----------------------------------------------------------------------------
(* Notifications and the record of external calls.                         *)

NULL == ""

\* one external call; unused fields keep their defaults
Call(op) == [op |-> op, variant |-> "", description |-> NULL, href |-> FALSE,
             autoClose |-> 0, stage |-> "", reason |-> "", withReceipt |-> FALSE]

NoToast == [created |-> 0, state |-> "none", description |-> NULL, href |-> FALSE,
            autoClose |-> 0, updates |-> 0, closes |-> 0]

\* the effect of one call of the Toast module on the notification
ApplyToast(t, c) ==
    IF c.op = "createPendingToast"
    THEN [t EXCEPT !.created = @ + 1, !.state = "pending", !.description = c.description]
    ELSE IF c.op = "updatePendingToast"
    THEN [t EXCEPT !.state = "pending", !.description = c.description, !.href = c.href,
                   !.autoClose = c.autoClose]
    ELSE IF c.op = "updateToast"
    THEN [t EXCEPT !.state = c.variant, !.description = c.description, !.href = c.href,
                   !.autoClose = c.autoClose, !.updates = @ + 1]
    ELSE IF c.op = "closeToast"
    THEN [t EXCEPT !.state = "closed", !.closes = @ + 1]
    ELSE t

RECURSIVE ApplyCalls(_, _)
ApplyCalls(t, cs) ==
    IF cs = <<>> THEN t ELSE ApplyCalls(ApplyToast(t, Head(cs)), Tail(cs))

\* the handle the most recently created notification has
TargetToast_MostRecent(own, store) == Len(store)

\* the handle passed to updatePendingToast, updateToast and closeToast: the
\* toastId constant of the invocation
TargetToast(own, store) == own

\* the calls cs applied to the store of the Toast module by an invocation
\* holding the handle id; createPendingToast adds a notification and returns
\* its handle, a fresh one
RECURSIVE StoreAfter(_, _, _)
StoreAfter(store, id, cs) ==
    IF cs = <<>> THEN [store |-> store, id |-> id]
    ELSE IF Head(cs).op = "createPendingToast"
    THEN StoreAfter(Append(store, ApplyToast(NoToast, Head(cs))), Len(store) + 1, Tail(cs))
    ELSE IF Head(cs).op \in {"updatePendingToast", "updateToast", "closeToast"}
    THEN StoreAfter([store EXCEPT ![TargetToast(id, store)] = ApplyToast(@, Head(cs))],
                    id, Tail(cs))
    ELSE StoreAfter(store, id, Tail(cs))

-----------------------------------------------------------------------------
(* Networks.                                                               *)

Arbitrum == "Arbitrum"
Optimism == "Optimism"
Ethereum == "Ethereum"
Networks == {Arbitrum, Optimism, Ethereum}

\* getNetworkConfig(network).displayName
displayName(net) == net

getTimeout(net) ==
    IF net \in {Arbitrum, Optimism} THEN 10 * 1000 ELSE 60 * 1000

-----------------------------------------------------------------------------
(* Failure reporting.                                                      *)

\* formatErrorReason with a display message for UserDenied
formatErrorReason_DeniedShown(errorReason, net) ==
    CASE errorReason = TradeSlippage -> "The quoted option price is now out of bounds, try again"
      [] errorReason = NetworkChanged -> "Your network unexpectedly changed, try again"
      [] errorReason = RpcError -> "An RPC error occurred, try again"
      [] errorReason = NotEnoughFunds ->
            "Your account on " \o displayName(net) \o " doesn't have enough gas"
      [] errorReason = UserDenied -> "You rejected the transaction"

formatErrorReason(errorReason, net) ==
    CASE errorReason = TradeSlippage -> "The quoted option price is now out of bounds, try again"
      [] errorReason = NetworkChanged -> "Your network unexpectedly changed, try again"
      [] errorReason = RpcError -> "An RPC error occurred, try again"
      [] errorReason = NotEnoughFunds ->
            "Your account on " \o displayName(net) \o " doesn't have enough gas"
      [] errorReason = UserDenied -> NULL

\* the default message chosen without looking at the stage
errorReasonMessage_IgnoresStage(error, stage, net) ==
    IF error.reason # NoReason THEN formatErrorReason(error.reason, net)
    ELSE "Failed to send transaction"

\* lines 254-258
errorReasonMessage(error, stage, net) ==
    IF error.reason # NoReason THEN formatErrorReason(error.reason, net)
    ELSE IF stage = Reverted THEN "Transaction reverted"
    ELSE "Failed to send transaction"

\* handleError updating the notification before reporting the error
handleError_ToastFirst(rawError, opts) ==
    LET error == extractError(rawError, opts.contract)
        message == errorReasonMessage(error, opts.stage, opts.network)
    IN  IF message = NULL
        THEN [error |-> error, calls |-> << Call("closeToast") >>]
        ELSE [error |-> error,
              calls |->
                << [Call("updateToast") EXCEPT !.variant = "error",
                                               !.description = message,
                                               !.href = opts.receipt.def,
                                               !.autoClose = DEFAULT_TOAST_ERROR_TIMEOUT],
                   [Call("postTransactionError") EXCEPT !.stage = opts.stage,
                                                        !.reason = error.reason,
                                                        !.withReceipt = opts.receipt.def] >>
                \o (IF opts.handler
                    THEN << [Call("handler") EXCEPT !.reason = error.reason,
                                                    !.stage = opts.stage,
                                                    !.withReceipt = opts.receipt.def] >>
                    ELSE << >>)]

\* handleError: the classified error and the external calls issued, in order.
\* opts is the TransactionErrorOptions record
\* [handler, network, receipt, contract, stage].  The Toast functions, the
\* two sinks and the error handler are synchronous calls whose results are
\* discarded; they are taken to return.
handleError(rawError, opts) ==
    LET error == extractError(rawError, opts.contract)
        message == errorReasonMessage(error, opts.stage, opts.network)
    IN  IF message = NULL
        THEN [error |-> error, calls |-> << Call("closeToast") >>]
        ELSE [error |-> error,
              calls |->
                << [Call("postTransactionError") EXCEPT !.stage = opts.stage,
                                                        !.reason = error.reason,
                                                        !.withReceipt = opts.receipt.def],
                   [Call("updateToast") EXCEPT !.variant = "error",
                                               !.description = message,
                                               !.href = opts.receipt.def,
                                               !.autoClose = DEFAULT_TOAST_ERROR_TIMEOUT] >>
                \o (IF opts.handler
                    THEN << [Call("handler") EXCEPT !.reason = error.reason,
                                                    !.stage = opts.stage,
                                                    !.withReceipt = opts.receipt.def] >>
                    ELSE << >>)]

-----------------------------------------------------------------------------
(* Inputs of an invocation.                                                *)

\* a contract whose interface declares two custom errors
OptionMarket ==
    [def |-> TRUE,
     errors |-> << <<"0xSlippage", NAME_TOTAL_COST>>, <<"0xCutoff", SampleNameOther>> >>]
\* a contract whose custom error name embeds the slippage error name
LegacyMarket ==
    [def |-> TRUE, errors |-> << <<"0xSlippage", SampleNameWrapped>> >>]
Contracts == {UndefinedContract, OptionMarket}

Wallets == [signer : BOOLEAN, account : BOOLEAN]

\* getNetworkConfig is a function of the network; these are the deployments
\* the model explores (minGas > maxGas is a misconfiguration)
Deployments ==
    { [network |-> Arbitrum,
       config |-> [minGas |-> 3, maxGas |-> 6, gasBuffer |-> [num |-> 3, den |-> 2]]],
      [network |-> Optimism,
       config |-> [minGas |-> 3, maxGas |-> 6, gasBuffer |-> [num |-> 1, den |-> 2]]],
      [network |-> Ethereum,
       config |-> [minGas |-> 2, maxGas |-> 4, gasBuffer |-> [num |-> 1, den |-> 1]]],
      [network |-> Optimism,
       config |-> [minGas |-> 6, maxGas |-> 3, gasBuffer |-> [num |-> 1, den |-> 1]]],
      [network |-> Arbitrum,
       config |-> [minGas |-> 3, maxGas |-> 6, gasBuffer |-> [num |-> 100001, den |-> 100000]]] }

ExplicitGas == {UndefinedGas, Gas(1), Gas(4), Gas(MaxExplicitGas)}

\* the three shapes of Transaction; gasLimit is options.gasLimit of the
\* method shape and tx.gasLimit of the other two
TxInputs ==
    [shape : {"method"}, contract : {OptionMarket}, gasLimit : ExplicitGas]
    \cup [shape : {"tx"}, contract : Contracts, gasLimit : ExplicitGas]
    \cup [shape : {"plain"}, contract : {UndefinedContract}, gasLimit : ExplicitGas]

Options == [onComplete : BOOLEAN, onError : BOOLEAN]

\* raw errors the estimation primitive, the wallet and the provider throw
GenericLayer == Layer(UndefinedCode, Str(SampleExecutionReverted), UndefinedData, UndefinedData)
ThrownErrors ==
    { << GenericLayer,
         Layer(NumCode(4001), Str(SampleDeniedWrapped), UndefinedData, UndefinedData) >>,
      << Layer(StrCode(STR_ACTION_REJECTED), Str(SampleRejectedLower),
               UndefinedData, UndefinedData) >>,
      << GenericLayer, GenericLayer,
         Layer(NumCode(3), Str(SampleExecutionReverted), "0xSlippage", UndefinedData) >>,
      << Layer(UndefinedCode, Str(SampleNoFunds), UndefinedData, UndefinedData) >>,
      << GenericLayer, Layer(NumCode(0 - 32005), UndefinedStr, UndefinedData, UndefinedData) >>,
      << Layer(UndefinedCode, Str(MSG_NETWORK_CHANGED), UndefinedData, UndefinedData) >>,
      << GenericLayer >> }

EstimateOutcomes ==
    {Estimated(v) : v \in 0..MaxEstimate} \cup {EstimateThrew(e) : e \in ThrownErrors}

\* new Error('Transaction reverted')
RevertedError ==
    << Layer(UndefinedCode, Str(MSG_TRANSACTION_REVERTED), UndefinedData, UndefinedData) >>

\* gas-limit step not started: no estimation call, no explicit limit read,
\* no estimate returned, no limit computed, nothing submitted
NoGas == [estimateCalls |-> 0, explicit |-> UndefinedGas, estimate |-> UndefinedGas,
          limit |-> UndefinedGas, sent |-> UndefinedGas]

NoReceipt == [def |-> FALSE, status |-> 0]
Receipt(status) == [def |-> TRUE, status |-> status]

Pending == [settled |-> "no", value |-> NoReceipt]
Returned(r) == [settled |-> "returned", value |-> r]
Threw == [settled |-> "threw", value |-> NoReceipt]

NoFailure == [def |-> FALSE, stage |-> "", rawError |-> <<>>,
              error |-> extractError(<<>>, UndefinedContract)]

\* the locals of an invocation that has not been started
Idle(id, shared, request, opts) ==
    [id |-> id, shared |-> shared, pc |-> "idle", txInputs |-> request, options |-> opts,
     toast |-> NoToast, toastId |-> 0, calls |-> << >>, gas |-> NoGas,
     poll |-> [n |-> 0, lookups |-> 0, clock |-> 0, lastLookupAt |-> 0, prevLookupAt |-> 0],
     receipt |-> NoReceipt, failure |-> NoFailure, ret |-> Pending]

\* there is no other invocation
NoInvocation ==
    [Idle(0, FALSE, [shape |-> "plain", contract |-> UndefinedContract,
                     gasLimit |-> UndefinedGas],
          [onComplete |-> FALSE, onError |-> FALSE])
     EXCEPT !.pc = "absent"]

\* no classification outside an invocation is in progress
ClassifierIdle ==
    /\ raw = <<>>
    /\ boundContract = UndefinedContract
    /\ extracted = extractError(<<>>, UndefinedContract)

Init ==
    /\ pc = "idle"
    /\ wallet \in Wallets
    /\ \E d \in Deployments : network = d.network /\ config = d.config
    /\ txInputs \in TxInputs
    /\ options \in Options
    /\ toast = NoToast
    /\ calls = << >>
    /\ gas = NoGas
    /\ poll = [n |-> 0, lookups |-> 0, clock |-> 0, lastLookupAt |-> 0, prevLookupAt |-> 0]
    /\ receipt = NoReceipt
    /\ failure = NoFailure
    /\ ret = Pending
    /\ ClassifierIdle
    /\ toasts = << >>
    /\ toastId = 0
    /\ parked = NoInvocation

-----------------------------------------------------------------------------
(* The controller: the async callback returned by useTransaction.          *)

\* the contract variable of the callback (lines 371, 378, 405)
ConnectedContract == txInputs.contract

\* issue the calls cs
Issue(cs) ==
    /\ calls' = calls \o cs
    /\ toast' = ApplyCalls(toast, cs)
    /\ toasts' = StoreAfter(toasts, toastId, cs).store
    /\ toastId' = StoreAfter(toasts, toastId, cs).id

\* the failure path returning the receipt it was given
Fail_ReturnsReceipt(rawError, stage, rcpt) ==
    LET handled == handleError(rawError, [handler |-> options.onError, network |-> network,
                                          receipt |-> rcpt, contract |-> ConnectedContract,
                                          stage |-> stage])
    IN  /\ Issue(handled.calls)
        /\ failure' = [def |-> TRUE, stage |-> stage, rawError |-> rawError,
                       error |-> handled.error]
        /\ ret' = Returned(rcpt)
        /\ pc' = "done"

\* a catch block or the reverted branch: handleError(...) and return null
Fail(rawError, stage, rcpt) ==
    LET handled == handleError(rawError, [handler |-> options.onError, network |-> network,
                                          receipt |-> rcpt, contract |-> ConnectedContract,
                                          stage |-> stage])
    IN  /\ Issue(handled.calls)
        /\ failure' = [def |-> TRUE, stage |-> stage, rawError |-> rawError,
                       error |-> handled.error]
        /\ ret' = Returned(NoReceipt)
        /\ pc' = "done"

\* the signer check without the account test
NoSigner_IgnoresAccount(w) == ~w.signer

\* line 351
NoSigner(w) == ~w.signer \/ ~w.account

\* lines 346-383 / 411: signer check, pending notification, and the call of
\* the gas-limit function up to its first await
Invoke ==
    /\ pc = "idle"
    /\ IF NoSigner(wallet)
       THEN /\ ret' = Returned(NoReceipt)
            /\ pc' = "done"
            /\ UNCHANGED <<toast, toasts, toastId, calls, gas>>
       ELSE /\ Issue(<< [Call("createPendingToast") EXCEPT
                            !.description = "Confirm your transaction"] >>
                     \o (IF CallsEstimate(txInputs.gasLimit)
                         THEN << Call("estimateGas") >> ELSE << >>))
            /\ gas' = [gas EXCEPT !.explicit = txInputs.gasLimit,
                                  !.estimateCalls =
                                      @ + (IF CallsEstimate(txInputs.gasLimit) THEN 1 ELSE 0)]
            /\ pc' = "gasLimit"
            /\ UNCHANGED ret
    /\ UNCHANGED <<wallet, network, config, txInputs, options, poll, receipt, failure,
                   raw, boundContract, extracted, parked>>

\* lines 381-399 / 410-427: the gas-limit function settles; on a value the
\* transaction is submitted with it, on a throw the failure is handled.  The
\* explicit limit is the one read before the await (gas.explicit); line 411
\* stores the result in the caller's object
GasLimitSettles ==
    /\ pc = "gasLimit"
    /\ \E estimate \in (IF CallsEstimate(gas.explicit)
                        THEN EstimateOutcomes ELSE {Estimated(0)}) :
          LET result == IF txInputs.shape = "method"
                        THEN getContractTxGasLimit(config, [gasLimit |-> gas.explicit], estimate)
                        ELSE getRawTxGasLimit(config, [gasLimit |-> gas.explicit], estimate)
              returned == IF CallsEstimate(gas.explicit) /\ ~estimate.threw
                          THEN Gas(estimate.val) ELSE UndefinedGas
          IN  IF result.threw
              THEN /\ Fail(result.rawError, GasEstimate, NoReceipt)
                   /\ gas' = [gas EXCEPT !.estimate = returned]
                   /\ UNCHANGED txInputs
              ELSE /\ gas' = [gas EXCEPT !.estimate = returned,
                                         !.limit = Gas(result.val),
                                         !.sent = Gas(result.val)]
                   /\ txInputs' = IF txInputs.shape = "method" THEN txInputs
                                  ELSE [txInputs EXCEPT !.gasLimit = Gas(result.val)]
                   /\ Issue(<< Call("send") >>)
                   /\ pc' = "submit"
                   /\ UNCHANGED <<failure, ret>>
    /\ UNCHANGED <<wallet, network, config, options, poll, receipt,
                   raw, boundContract, extracted, parked>>

\* the catch block of the submission reporting stage GasEstimate
SubmissionSettles_StageGasEstimate ==
    /\ pc = "submit"
    /\ \/ \E rawError \in ThrownErrors :
             /\ Fail(rawError, GasEstimate, NoReceipt)
             /\ UNCHANGED poll
       \/ /\ Issue(<< [Call("updatePendingToast") EXCEPT
                          !.description =
                              "Your transaction is pending, click to view on etherscan",
                          !.href = TRUE,
                          !.autoClose = getTimeout(network) + POLL_INTERVAL] >>)
          /\ poll' = [n |-> 0, lookups |-> 0, clock |-> 0, lastLookupAt |-> 0,
                      prevLookupAt |-> 0]
          /\ pc' = "timer"
          /\ UNCHANGED <<failure, ret>>
    /\ UNCHANGED <<wallet, network, config, txInputs, options, gas, receipt,
                   raw, boundContract, extracted, parked>>

\* lines 394-399 / 422-427 and 430-459: the submission settles; on a response
\* the notification gets the explorer link and the first poll is scheduled
SubmissionSettles ==
    /\ pc = "submit"
    /\ \/ \E rawError \in ThrownErrors :
             /\ Fail(rawError, Wallet, NoReceipt)
             /\ UNCHANGED poll
       \/ /\ Issue(<< [Call("updatePendingToast") EXCEPT
                          !.description =
                              "Your transaction is pending, click to view on etherscan",
                          !.href = TRUE,
                          !.autoClose = getTimeout(network) + POLL_INTERVAL] >>)
          /\ poll' = [n |-> 0, lookups |-> 0, clock |-> 0, lastLookupAt |-> 0,
                      prevLookupAt |-> 0]
          /\ pc' = "timer"
          /\ UNCHANGED <<failure, ret>>
    /\ UNCHANGED <<wallet, network, config, txInputs, options, gas, receipt,
                   raw, boundContract, extracted, parked>>

\* setTimeout(pollReceipt, POLL_INTERVAL) fires: pollReceipt starts and calls
\* provider.getTransactionReceipt
TimerFires ==
    /\ pc = "timer"
    /\ poll' = [poll EXCEPT !.clock = @ + POLL_INTERVAL,
                            !.lookups = @ + 1,
                            !.prevLookupAt = poll.lastLookupAt,
                            !.lastLookupAt = poll.clock + POLL_INTERVAL]
    /\ pc' = "lookup"
    /\ UNCHANGED <<wallet, network, config, txInputs, options, toast, toasts, toastId,
                   calls, gas,
                   receipt, failure, ret, raw, boundContract, extracted, parked>>

\* the retry test with <= for <
RetryAllowed_OneMore(n) == n <= MAX_RETRIES

\* line 450
RetryAllowed(n) == n < MAX_RETRIES

\* the timeout treated as a reported failure
TimedOutCalls_Reported(net) ==
    << [Call("postTransactionError") EXCEPT !.stage = Reverted, !.reason = NoReason],
       [Call("updateToast") EXCEPT
           !.variant = "error",
           !.description = "Failed to send transaction",
           !.href = TRUE,
           !.autoClose = DEFAULT_TOAST_ERROR_TIMEOUT] >>

\* lines 495-504: the timeout warning
TimedOutCalls(net) ==
    << [Call("updateToast") EXCEPT
           !.variant = "warning",
           !.description = "Your transaction took longer than "
                           \o ToString(getTimeout(net) \div 1000)
                           \o " seconds, click to view on etherscan",
           !.href = TRUE,
           !.autoClose = DEFAULT_TOAST_INFO_TIMEOUT] >>

\* the success branch without the call of the success sink
Succeed_Unrecorded(rcpt) ==
    /\ Issue(<< [Call("updateToast") EXCEPT
                    !.variant = "success",
                    !.description = "Your transaction was successful",
                    !.href = TRUE,
                    !.autoClose = DEFAULT_TOAST_INFO_TIMEOUT] >>)
    /\ ret' = Returned(rcpt)
    /\ pc' = "done"

\* lines 475-491 after onComplete: success sink, success notification, return
Succeed(rcpt) ==
    /\ Issue(<< Call("postTransactionSuccess"),
                [Call("updateToast") EXCEPT
                    !.variant = "success",
                    !.description = "Your transaction was successful",
                    !.href = TRUE,
                    !.autoClose = DEFAULT_TOAST_INFO_TIMEOUT] >>)
    /\ ret' = Returned(rcpt)
    /\ pc' = "done"

\* lines 448-449 and 463-492: the lookup returns a receipt, the promise
\* resolves with it and the callback handles it
LookupReturnsReceipt ==
    /\ pc = "lookup"
    /\ \E status \in {Failure, Success} :
          /\ receipt' = Receipt(status)
          /\ IF status = Failure
             THEN Fail(RevertedError, Reverted, Receipt(status))
             ELSE IF options.onComplete
             THEN /\ Issue(<< Call("onComplete") >>)
                  /\ pc' = "onComplete"
                  /\ UNCHANGED <<failure, ret>>
             ELSE /\ Succeed(Receipt(status))
                  /\ UNCHANGED failure
    /\ UNCHANGED <<wallet, network, config, txInputs, options, gas, poll,
                   raw, boundContract, extracted, parked>>

\* lines 450-456 and 493-506: the lookup returns null; retry, or resolve
\* with null and show the timeout warning
LookupReturnsNull ==
    /\ pc = "lookup"
    /\ IF RetryAllowed(poll.n)
       THEN /\ poll' = [poll EXCEPT !.n = @ + 1]
            /\ pc' = "timer"
            /\ UNCHANGED <<toast, toasts, toastId, calls, ret>>
       ELSE /\ Issue(TimedOutCalls(network))
            /\ ret' = Returned(NoReceipt)
            /\ pc' = "done"
            /\ UNCHANGED poll
    /\ UNCHANGED <<wallet, network, config, txInputs, options, gas, receipt, failure,
                   raw, boundContract, extracted, parked>>

\* line 447 throws: the promise of pollReceipt rejects inside the timer
\* callback, no further timer is set and resolve is never called, so the
\* await of line 444 never completes
LookupThrows ==
    /\ pc = "lookup"
    /\ pc' = "hung"
    /\ UNCHANGED <<wallet, network, config, txInputs, options, toast, toasts, toastId,
                   calls, gas, poll,
                   receipt, failure, ret, raw, boundContract, extracted, parked>>

\* lines 477-491: the awaited onComplete settles; its rejection is not caught
OnCompleteSettles ==
    /\ pc = "onComplete"
    /\ \/ Succeed(receipt)
       \/ /\ ret' = Threw
          /\ pc' = "done"
          /\ UNCHANGED <<toast, toasts, toastId, calls>>
    /\ UNCHANGED <<wallet, network, config, txInputs, options, gas, poll, receipt,
                   failure, raw, boundContract, extracted, parked>>

Next ==
    \/ Invoke
    \/ GasLimitSettles
    \/ SubmissionSettles
    \/ TimerFires
    \/ LookupReturnsReceipt
    \/ LookupReturnsNull
    \/ LookupThrows
    \/ OnCompleteSettles

Spec == Init /\ [][Next]_vars

-----------------------------------------------------------------------------
(* Two invocations of the callback in flight.  Only one of them runs at a  *)
(* time (JavaScript is single threaded); the other one is suspended at an  *)
(* await or has not run yet, and its locals are kept in parked.  wallet,   *)
(* network and config belong to the hook, the store of the Toast module is *)
(* global, and the two invocations are given the same request object or    *)
(* two objects.                                                            *)

\* the running invocation is suspended only within its first lookups
MaxInterleavedLookups == 0

\* the locals of the running invocation
Running ==
    [id |-> 3 - parked.id, shared |-> parked.shared, pc |-> pc, txInputs |-> txInputs,
     options |-> options, toast |-> toast, toastId |-> toastId, calls |-> calls,
     gas |-> gas, poll |-> poll, receipt |-> receipt, failure |-> failure, ret |-> ret]

\* the request of the single object both invocations are given / the two
\* requests of an invocation pair with an object each
SharedRequest ==
    [shape |-> "plain", contract |-> UndefinedContract, gasLimit |-> Gas(1)]
FirstRequest ==
    [shape |-> "plain", contract |-> UndefinedContract, gasLimit |-> UndefinedGas]
SecondRequest ==
    [shape |-> "tx", contract |-> OptionMarket, gasLimit |-> Gas(4)]

InitPair ==
    /\ pc = "idle"
    /\ wallet = [signer |-> TRUE, account |-> TRUE]
    /\ network = Arbitrum
    /\ config = [minGas |-> 3, maxGas |-> 6, gasBuffer |-> [num |-> 3, den |-> 2]]
    /\ options = [onComplete |-> FALSE, onError |-> TRUE]
    /\ toast = NoToast
    /\ calls = << >>
    /\ gas = NoGas
    /\ poll = [n |-> 0, lookups |-> 0, clock |-> 0, lastLookupAt |-> 0, prevLookupAt |-> 0]
    /\ receipt = NoReceipt
    /\ failure = NoFailure
    /\ ret = Pending
    /\ ClassifierIdle
    /\ toasts = << >>
    /\ toastId = 0
    /\ \E shared \in BOOLEAN :
          /\ txInputs = IF shared THEN SharedRequest ELSE FirstRequest
          /\ parked = Idle(2, shared, IF shared THEN SharedRequest ELSE SecondRequest,
                           [onComplete |-> TRUE, onError |-> TRUE])

\* the running invocation is suspended at an await (or has returned, or has
\* not started) and the event loop continues the other invocation
Switch ==
    /\ parked.id # 0
    /\ poll.lookups <= MaxInterleavedLookups
    /\ pc' = parked.pc
    /\ txInputs' = IF parked.shared THEN txInputs ELSE parked.txInputs
    /\ options' = parked.options
    /\ toast' = parked.toast
    /\ toastId' = parked.toastId
    /\ calls' = parked.calls
    /\ gas' = parked.gas
    /\ poll' = parked.poll
    /\ receipt' = parked.receipt
    /\ failure' = parked.failure
    /\ ret' = parked.ret
    /\ parked' = Running
    /\ UNCHANGED <<wallet, network, config, toasts, raw, boundContract, extracted>>

NextPair ==
    \/ Next
    \/ Switch

SpecPair == InitPair /\ [][NextPair]_vars

-----------------------------------------------------------------------------
(* The classifier on its own: extractError applied to raw errors of every  *)
(* wrapping depth.                                                         *)

\* number of error envelopes around the innermost error object
MaxDepth == 3

Str4001 == <<"4","0","0","1">>
Codes ==
    {UndefinedCode, NumCode(4001), StrCode(Str4001), StrCode(STR_ACTION_REJECTED),
     NumCode(0 - 32005), NumCode(3)}

Messages ==
    {UndefinedStr, Str(<<>>), Str(MSG_USER_REJECTED), Str(SampleRejectedUpper),
     Str(SampleRejectedLower), Str(SampleRejectedNearMiss), Str(SampleDeniedWrapped),
     Str(SampleExecutionReverted), Str(SampleRateLimited), Str(SampleNoFunds),
     Str(MSG_NETWORK_CHANGED)}

\* the messages of the pattern table themselves
TableMessages ==
    {Str(MSG_USER_DENIED), Str(MSG_LOADING_DEFAULTS), Str(MSG_NOT_ENOUGH_FUNDS),
     Str(MSG_INSUFFICIENT_GAS_FUNDS), Str(MSG_NON_200), Str(MSG_REQUEST_LIMIT),
     Str(MSG_INTERNAL_JSON_RPC), Str(MSG_NO_ERROR_OR_RESULT), Str(MSG_CANT_EXECUTE),
     Str(MSG_COULDNT_CONNECT)}

\* <<data, data.data>> of the error object
Datas ==
    { <<UndefinedData, UndefinedData>>, <<"0xSlippage", UndefinedData>>,
      <<"object", "0xSlippage">>, <<"0xCutoff", UndefinedData>>,
      <<"0xGarbage", UndefinedData>> }

\* an envelope that would classify as RpcError if it were the object inspected
Envelope == Layer(NumCode(0 - 32005), Str(MSG_NON_200), UndefinedData, UndefinedData)

RECURSIVE Wrapped(_, _)
Wrapped(inner, depth) ==
    IF depth = 0 THEN << inner >> ELSE << Envelope >> \o Wrapped(inner, depth - 1)

RawErrors ==
    { Wrapped(Layer(c, m, d[1], d[2]), depth) :
        c \in Codes, m \in Messages \cup TableMessages, d \in Datas, depth \in 0..MaxDepth }

InitExtract ==
    /\ pc = "classify"
    /\ raw \in RawErrors
    /\ boundContract \in Contracts \cup {LegacyMarket}
    /\ extracted = extractError(<<>>, UndefinedContract)
    /\ wallet = [signer |-> FALSE, account |-> FALSE]
    /\ network = Optimism
    /\ config = [minGas |-> 3, maxGas |-> 6, gasBuffer |-> [num |-> 1, den |-> 1]]
    /\ txInputs = [shape |-> "plain", contract |-> UndefinedContract, gasLimit |-> UndefinedGas]
    /\ options = [onComplete |-> FALSE, onError |-> FALSE]
    /\ toast = NoToast
    /\ calls = << >>
    /\ gas = NoGas
    /\ poll = [n |-> 0, lookups |-> 0, clock |-> 0, lastLookupAt |-> 0, prevLookupAt |-> 0]
    /\ receipt = NoReceipt
    /\ failure = NoFailure
    /\ ret = Pending
    /\ toasts = << >>
    /\ toastId = 0
    /\ parked = NoInvocation

Classify ==
    /\ pc = "classify"
    /\ extracted' = extractError(raw, boundContract)
    /\ pc' = "classified"
    /\ UNCHANGED <<wallet, network, config, txInputs, options, toast, toasts, toastId,
                   calls, gas, poll, receipt, failure, ret, raw, boundContract, parked>>

NextExtract == Classify

SpecExtract == InitExtract /\ [][NextExtract]_vars

-----------------------------------------------------------------------------
(* Properties.                                                             *)

\* number of calls of the external operation op issued so far
CallCount(op) == Cardinality({i \in DOMAIN calls : calls[i].op = op})

\* the promise of the callback has settled
Settled == pc = "done"

\* a failure of the gas-limit step or of the submission classified UserDenied
Denied ==
    /\ failure.def
    /\ failure.stage \in {GasEstimate, Wallet}
    /\ failure.error.reason = UserDenied

\* the null/closed/unreported part of a silent denial
DeniedSilently ==
    /\ ret = Returned(NoReceipt)
    /\ toast.state = "closed"
    /\ toast.closes = 1
    /\ toast.updates = 0
    /\ CallCount("postTransactionError") = 0

\* C1 as stated: a failure of the gas-limit step or the submission that is
\* classified UserDenied returns null, closes the notification, sends no error
\* report, and calls the supplied error handler exactly once with reason
\* UserDenied.
C1_HandlerInvokedOnDenial ==
    Denied =>
        /\ DeniedSilently
        /\ options.onError =>
              /\ CallCount("handler") = 1
              /\ \E i \in DOMAIN calls :
                    calls[i].op = "handler" /\ calls[i].reason = UserDenied

\* C1 amended: a failure of the gas-limit step or the submission that is
\* classified UserDenied returns null, closes the notification without ever
\* giving it the error style, sends no error report, and does not call the
\* error handler, supplied or not.
C1_SilentDenial ==
    Denied =>
        /\ DeniedSilently
        /\ CallCount("handler") = 0

\* C1 witness: gas estimation of a method call threw "User denied transaction
\* signature" while the caller had supplied an error handler
C1_Witness ==
    /\ Settled
    /\ Denied
    /\ failure.stage = GasEstimate
    /\ txInputs.shape = "method"
    /\ options.onError
    /\ includes(toLowerCase(Unwrap(failure.rawError).message.str),
                toLowerCase(MSG_USER_DENIED))

\* C2 as stated: an invocation with an active signer creates exactly one
\* notification, and once the invocation has stopped (settled, or stuck with
\* nothing left to run) the notification is closed or has received exactly one
\* terminal update (success, error, warning), never both, never pending.
C2_NotificationInvariant ==
    (~NoSigner(wallet) /\ pc # "idle") =>
        /\ toast.created = 1
        /\ toast.closes + toast.updates <= 1
        /\ pc \in {"done", "hung"} =>
              \/ toast.state = "closed" /\ toast.closes = 1 /\ toast.updates = 0
              \/ /\ toast.state \in {"success", "error", "warning"}
                 /\ toast.closes = 0
                 /\ toast.updates = 1

\* polling resolved with the null sentinel
TimedOut == Settled /\ poll.lookups > 0 /\ ~receipt.def /\ ~failure.def

\* spacing of the lookups: lookup k happens k poll intervals after submission
LookupsSpaced ==
    /\ poll.lookups >= 1 => poll.lastLookupAt = poll.lookups * POLL_INTERVAL
    /\ poll.lookups >= 2 => poll.lastLookupAt - poll.prevLookupAt = POLL_INTERVAL

\* C3 as stated: without a receipt the poller performs exactly 100 lookups one
\* poll interval apart and resolves to null without throwing; a receipt appears
\* on a lookup k in 1..100, resolves the poller and ends the lookups.
C3_HundredLookups ==
    /\ LookupsSpaced
    /\ poll.lookups <= 100
    /\ TimedOut => poll.lookups = 100 /\ ret = Returned(NoReceipt)
    /\ receipt.def => poll.lookups \in 1..100 /\ pc \in {"onComplete", "done"}

\* C3 amended: without a receipt the poller performs exactly 101 lookups (the
\* first one plus 100 retries) one poll interval apart and resolves to null
\* without throwing; a receipt that appears on lookup k, 1 <= k <= 101,
\* resolves the poller at lookup k and no further lookup is performed.
C3_PollBudget ==
    /\ LookupsSpaced
    /\ poll.lookups <= MAX_RETRIES + 1
    /\ TimedOut => poll.lookups = MAX_RETRIES + 1 /\ ret = Returned(NoReceipt)
    /\ receipt.def => poll.lookups \in 1..(MAX_RETRIES + 1) /\ pc \in {"onComplete", "done"}

\* C3 witness: the retry budget ran out and polling resolved with null
C3_Witness ==
    /\ TimedOut
    /\ poll.n = MAX_RETRIES
    /\ poll.lastLookupAt = (MAX_RETRIES + 1) * POLL_INTERVAL

\* a transaction was submitted with a caller-supplied gas limit
SubmittedExplicit == gas.sent.def /\ gas.explicit.def

\* C4 as stated: with an explicit gas limit the estimation primitive is not
\* called and the transaction is submitted with exactly the supplied limit,
\* also below minGas and above maxGas.
C4_ExplicitLimitUnclamped ==
    SubmittedExplicit =>
        /\ gas.estimateCalls = 0
        /\ gas.sent.val = gas.explicit.val

\* C4 amended: with an explicit gas limit the estimation primitive is not
\* called, and the transaction is submitted with the supplied limit clamped
\* like an estimate: minGas if the supplied limit is below minGas, otherwise
\* maxGas if it is above maxGas, otherwise the supplied limit itself.
C4_ExplicitLimitClamped ==
    SubmittedExplicit =>
        /\ gas.estimateCalls = 0
        /\ CallCount("estimateGas") = 0
        /\ gas.sent.val = IF gas.explicit.val < config.minGas THEN config.minGas
                          ELSE IF gas.explicit.val > config.maxGas THEN config.maxGas
                          ELSE gas.explicit.val

\* C4 witness: an explicit limit below minGas was raised to minGas
C4_Witness ==
    /\ SubmittedExplicit
    /\ config.minGas <= config.maxGas
    /\ gas.explicit.val < config.minGas
    /\ gas.sent.val = config.minGas

\* C5: an invocation without signer or without account returns null, creates
\* no notification, performs no gas estimation, submission or receipt lookup,
\* and calls no sink and no callback.
C5_NoSignerNoEffect ==
    (~wallet.signer \/ ~wallet.account) =>
        /\ pc \in {"idle", "done"}
        /\ Settled => ret = Returned(NoReceipt)
        /\ toast = NoToast
        /\ calls = << >>
        /\ gas = NoGas
        /\ poll.lookups = 0
        /\ ~receipt.def
        /\ ~failure.def

\* C5 witness: an invocation with a signer but no account has returned
C5_Witness ==
    /\ Settled
    /\ wallet.signer
    /\ ~wallet.account
    /\ ret = Returned(NoReceipt)

\* polling resolved with a receipt whose status is Success
ResolvedSuccess == receipt.def /\ receipt.status = Success

\* while the completion callback is awaited nothing has been recorded or shown
AwaitingCallback ==
    pc = "onComplete" =>
        /\ ResolvedSuccess
        /\ calls[Len(calls)].op = "onComplete"
        /\ CallCount("postTransactionSuccess") = 0
        /\ toast.state = "pending"
        /\ toast.updates = 0

\* the success path has run to its end: callback (if supplied), then success
\* sink, then success notification, and the receipt is returned
SuccessRecorded ==
    /\ ret = Returned(receipt)
    /\ CallCount("onComplete") = (IF options.onComplete THEN 1 ELSE 0)
    /\ CallCount("postTransactionSuccess") = 1
    /\ CallCount("postTransactionError") = 0
    /\ CallCount("handler") = 0
    /\ toast.state = "success"
    /\ toast.updates = 1
    /\ toast.closes = 0
    /\ Len(calls) >= 3
    /\ calls[Len(calls)].op = "updateToast"
    /\ calls[Len(calls)].variant = "success"
    /\ calls[Len(calls) - 1].op = "postTransactionSuccess"
    /\ options.onComplete => calls[Len(calls) - 2].op = "onComplete"

ResolvedReverted == receipt.def /\ receipt.status = Failure

\* C7: when polling resolves with a receipt of status 0 the invocation returns
\* null, the failure has stage Reverted, one error report is sent, the
\* notification is the error notification "Transaction reverted", neither the
\* success sink nor the completion callback is called, and the error handler,
\* if supplied, receives the classified error and the receipt.
C7_Reverted ==
    ResolvedReverted =>
        /\ Settled
        /\ ret = Returned(NoReceipt)
        /\ failure.def
        /\ failure.stage = Reverted
        /\ CallCount("postTransactionError") = 1
        /\ \E i \in DOMAIN calls :
              /\ calls[i].op = "postTransactionError"
              /\ calls[i].stage = Reverted
              /\ calls[i].withReceipt
        /\ toast.state = "error"
        /\ toast.description = "Transaction reverted"
        /\ toast.updates = 1
        /\ CallCount("postTransactionSuccess") = 0
        /\ CallCount("onComplete") = 0
        /\ CallCount("handler") = (IF options.onError THEN 1 ELSE 0)
        /\ options.onError =>
              \E i \in DOMAIN calls :
                  /\ calls[i].op = "handler"
                  /\ calls[i].reason = failure.error.reason
                  /\ calls[i].stage = Reverted
                  /\ calls[i].withReceipt

\* C7 witness: a reverted receipt on a later lookup, error handler supplied
C7_Witness ==
    /\ ResolvedReverted
    /\ poll.lookups = 2
    /\ options.onError
    /\ options.onComplete
    /\ toast.state = "error"

\* C8: on exhaustion of the retry budget the notification becomes the warning
\* with the explorer link, the invocation returns null, and neither sink, nor
\* the error handler, nor the completion callback is called.
C8_TimeoutNotAnError ==
    TimedOut =>
        /\ toast.state = "warning"
        /\ toast.href
        /\ toast.updates = 1
        /\ toast.closes = 0
        /\ ret = Returned(NoReceipt)
        /\ CallCount("postTransactionError") = 0
        /\ CallCount("postTransactionSuccess") = 0
        /\ CallCount("handler") = 0
        /\ CallCount("onComplete") = 0

\* C8 witness: a timeout of an invocation that supplied both callbacks
C8_Witness ==
    /\ TimedOut
    /\ options.onError
    /\ options.onComplete
    /\ toast.state = "warning"

\* the gas limit was computed from an estimate under a well-formed config
EstimatedLimit ==
    /\ gas.limit.def
    /\ ~gas.explicit.def
    /\ gas.estimate.def
    /\ config.minGas <= config.maxGas

\* C9: on both paths, a gas limit computed from an estimate under
\* minGas <= maxGas is minGas if the buffered estimate is below minGas, maxGas
\* if it is above maxGas, and the buffered estimate otherwise; it lies in
\* [minGas, maxGas] and is the limit submitted.
C9_GasClamping ==
    EstimatedLimit =>
        LET buffered == Buffered(gas.estimate.val, config.gasBuffer).val
        IN  /\ buffered < config.minGas => gas.limit.val = config.minGas
            /\ buffered > config.maxGas => gas.limit.val = config.maxGas
            /\ (buffered >= config.minGas /\ buffered <= config.maxGas) =>
                  gas.limit.val = buffered
            /\ gas.limit.val >= config.minGas
            /\ gas.limit.val <= config.maxGas
            /\ gas.sent = gas.limit
            /\ txInputs.shape # "method" => txInputs.gasLimit = gas.limit

\* C9 witness: a method-call estimate above maxGas after buffering
C9_Witness ==
    /\ EstimatedLimit
    /\ txInputs.shape = "method"
    /\ Buffered(gas.estimate.val, config.gasBuffer).val > config.maxGas
    /\ gas.limit.val = config.maxGas

\* extractError has been applied to raw under boundContract
Classified == pc = "classified"

\* for wrapping depth 0, 1 or 2 the innermost error object is the last layer
WithinDepth == Len(raw) \in 1..3
Innermost == raw[Len(raw)]

\* the innermost message contains "user rejected transaction", ignoring case
MessageRejected ==
    /\ Innermost.message.def
    /\ includes(toLowerCase(Innermost.message.str), LowerUserRejected)

\* the bound contract decodes the innermost error's data (data.data, else
\* data) to a custom error whose name contains the slippage error name
DecodesToSlippage ==
    LET data == IF Innermost.dataData # UndefinedData THEN Innermost.dataData
                ELSE Innermost.data
    IN  /\ boundContract.def
        /\ \E i \in 1..Len(boundContract.errors) :
              /\ boundContract.errors[i][1] = data
              /\ includes(toLowerCase(boundContract.errors[i][2]),
                          toLowerCase(NAME_TOTAL_COST))

\* C10 as stated: a raw error of wrapping depth 0, 1 or 2 whose innermost
\* message contains "user rejected transaction" (any case) is classified
\* UserDenied, whatever its code, data and bound contract.
C10_RejectedAlwaysDenied ==
    (Classified /\ WithinDepth /\ MessageRejected) => extracted.reason = UserDenied

\* C10 amended: such an error is classified UserDenied whatever its code,
\* unless the bound contract decodes its data to a custom error whose name
\* contains "TotalCostOutsideOfSpecifiedBounds" (any case); then it is
\* classified TradeSlippage.
C10_RejectedDeniedUnlessSlippage ==
    (Classified /\ WithinDepth /\ MessageRejected) =>
        extracted.reason = IF DecodesToSlippage THEN TradeSlippage ELSE UserDenied

\* C10 witness: an upper-case rejection message two envelopes deep, carrying
\* the RpcError code, classified UserDenied
C10_Witness ==
    /\ Classified
    /\ Len(raw) = 3
    /\ MessageRejected
    /\ Innermost.message.str = SampleRejectedUpper
    /\ Innermost.code = NumCode(0 - 32005)
    /\ extracted.reason = UserDenied

\* the fields of the classified error, lower-cased where the match ignores case
ClassifiedMessage ==
    IF extracted.message.def THEN toLowerCase(extracted.message.str) ELSE << >>
ClassifiedName ==
    IF extracted.description.def THEN toLowerCase(extracted.description.name) ELSE << >>
MessageHas(m) == includes(ClassifiedMessage, toLowerCase(m))

\* the match criteria of the five reasons
SlippageRule == includes(ClassifiedName, toLowerCase(NAME_TOTAL_COST))
DeniedRule ==
    \/ MessageHas(MSG_USER_DENIED)
    \/ MessageHas(MSG_USER_REJECTED)
    \/ MessageHas(MSG_LOADING_DEFAULTS)
    \/ extracted.code = StrCode(STR_ACTION_REJECTED)
    \/ extracted.code = NumCode(4001)
FundsRule == MessageHas(MSG_NOT_ENOUGH_FUNDS) \/ MessageHas(MSG_INSUFFICIENT_GAS_FUNDS)
NetworkRule == MessageHas(MSG_NETWORK_CHANGED)
RpcRule ==
    \/ extracted.code = NumCode(0 - 32005)
    \/ MessageHas(MSG_NON_200)
    \/ MessageHas(MSG_REQUEST_LIMIT)
    \/ MessageHas(MSG_INTERNAL_JSON_RPC)
    \/ MessageHas(MSG_NO_ERROR_OR_RESULT)
    \/ MessageHas(MSG_CANT_EXECUTE)
    \/ MessageHas(MSG_COULDNT_CONNECT)

\* C11: the classified reason is the first of TradeSlippage, UserDenied,
\* NotEnoughFunds, NetworkChanged, RpcError whose criteria the error's code,
\* message or decoded error name meets, and it is unset when none is met; an
\* error with the slippage name and the code -32005 is TradeSlippage.
C11_FirstMatchWins ==
    Classified =>
        extracted.reason =
            IF SlippageRule THEN TradeSlippage
            ELSE IF DeniedRule THEN UserDenied
            ELSE IF FundsRule THEN NotEnoughFunds
            ELSE IF NetworkRule THEN NetworkChanged
            ELSE IF RpcRule THEN RpcError
            ELSE NoReason

\* C11 witness: the decoded slippage error together with the RpcError code
C11_Witness ==
    /\ Classified
    /\ SlippageRule
    /\ extracted.code = NumCode(0 - 32005)
    /\ ~DeniedRule
    /\ extracted.reason = TradeSlippage

\* a receipt lookup of the poller failed
LookupFailed == pc = "hung"

\* the failure went through handleError
Handled == failure.def /\ ret = Returned(NoReceipt) /\ pc = "done"

\* C12 as stated: every failure of gas estimation, of the submission and of a
\* receipt lookup is caught and passed through handleError, none of them
\* reaches the caller as a thrown error, and the only error that escapes is one
\* raised by the completion callback.
C12_FailureContainment ==
    /\ LookupFailed => Handled
    /\ failure.def => Handled
    /\ ret = Threw =>
          /\ options.onComplete
          /\ ~failure.def
          /\ calls[Len(calls)].op = "onComplete"

\* the invocation returned a receipt rather than null
ReturnedReceipt == ret.settled = "returned" /\ ret.value.def

\* the terminal states that are not Succeeded
EndedWithoutSigner == Settled /\ NoSigner(wallet)
EndedFailed == Settled /\ failure.def /\ failure.stage \in {GasEstimate, Wallet}
EndedReverted == Settled /\ receipt.def /\ receipt.status = Failure

\* C13: an invocation returns a non-null receipt exactly when polling produced
\* a receipt whose status is not Failure and the completion callback, if any,
\* completed; without signer, after a gas-estimate or submission failure, a
\* silent denial, a revert or a timeout it returns null; with a non-null
\* receipt returned the success sink was called once and the error sink never.
C13_ReturnValue ==
    /\ ~Settled => ret = Pending
    /\ Settled =>
          /\ ReturnedReceipt <=> (ResolvedSuccess /\ ret # Threw)
          /\ (EndedWithoutSigner \/ EndedFailed \/ Denied \/ EndedReverted \/ TimedOut)
                => ret = Returned(NoReceipt)
          /\ ReturnedReceipt =>
                /\ ret.value = receipt
                /\ CallCount("postTransactionSuccess") = 1
                /\ CallCount("postTransactionError") = 0

\* C13 witness: a receipt returned by an invocation without completion callback
C13_Witness ==
    /\ Settled
    /\ ReturnedReceipt
    /\ ~options.onComplete
    /\ ret.value.status = Success
    /\ poll.lookups >= 2

\* floor(estimate * max(1, multiplier)) for the multiplier num/den
ScaledEstimate(estimate, gasBuffer) ==
    IF gasBuffer.num < gasBuffer.den THEN estimate
    ELSE (estimate * gasBuffer.num) \div gasBuffer.den

\* C14 as stated: whenever the estimation primitive returned an estimate the
\* gas-limit step yields the clamped value of
\* floor(estimate * (10000 * max(1, gasBuffer)) / 10000), so a multiplier below
\* 1 never lowers the estimate.
C14_BufferScaling ==
    gas.estimate.def =>
        /\ gas.limit.def
        /\ gas.limit.val = Clamp(ScaledEstimate(gas.estimate.val, config.gasBuffer), config)

\* the submission returned a response and polling was started
Submitted == CallCount("updatePendingToast") = 1

\* some step of the invocation is left to run (ENABLED Next, the steps of
\* the polling phase first)
StepLeft ==
    \/ ENABLED TimerFires
    \/ ENABLED LookupThrows
    \/ ENABLED OnCompleteSettles
    \/ ENABLED Next

\* C15 as stated, in its finite form: after a successful submission, when the
\* timer has fired and every lookup has completed (with a receipt, with
\* nothing, or by failing) so that no step of the invocation is left to run,
\* the invocation has left polling and the promise of the entry point has
\* settled.
C15_PollingTerminates ==
    (Submitted /\ ~Settled) => StepLeft

\* every call of the first operation precedes every call of the second
Precedes(first, second) ==
    \A i, j \in DOMAIN calls :
        (calls[i].op = first /\ calls[j].op = second) => i < j

\* polling has started: a poll timer is set or a lookup was made
PollingStarted == pc \in {"timer", "lookup"} \/ poll.lookups > 0

\* C16: the gas-limit step runs at most once and before any submission; the
\* submission is attempted at most once and only after the gas-limit step
\* returned a limit; polling starts only after the submission returned and the
\* notification was updated with the explorer link; a failed gas-limit step has
\* stage GasEstimate, a failed submission stage Wallet, and after either there
\* is no submission, no polling and no call of the success sink.
C16_PhaseOrdering ==
    /\ gas.estimateCalls <= 1
    /\ CallCount("estimateGas") = gas.estimateCalls
    /\ CallCount("send") <= 1
    /\ CallCount("updatePendingToast") <= 1
    /\ Precedes("createPendingToast", "estimateGas")
    /\ Precedes("estimateGas", "send")
    /\ Precedes("send", "updatePendingToast")
    /\ CallCount("send") = 1 => gas.limit.def /\ gas.sent = gas.limit
    /\ PollingStarted =>
          /\ CallCount("send") = 1
          /\ Submitted
    /\ pc \in {"timer", "lookup"} =>
          /\ toast.state = "pending"
          /\ toast.href
          /\ ~failure.def
    /\ (failure.def /\ CallCount("send") = 0) => failure.stage = GasEstimate
    /\ (failure.def /\ CallCount("send") = 1 /\ ~Submitted) => failure.stage = Wallet
    /\ (failure.def /\ failure.stage = GasEstimate) =>
          /\ CallCount("send") = 0
          /\ ~gas.limit.def
    /\ (failure.def /\ failure.stage \in {GasEstimate, Wallet}) =>
          /\ Settled
          /\ ~Submitted
          /\ ~PollingStarted
          /\ CallCount("postTransactionSuccess") = 0
          /\ calls[Len(calls)].op # "send"

\* C16 witness: the gas limit was estimated, the submission was attempted
\* once and failed in the wallet
C16_Witness ==
    /\ failure.def
    /\ failure.stage = Wallet
    /\ failure.error.reason = NotEnoughFunds
    /\ gas.estimateCalls = 1
    /\ CallCount("send") = 1
    /\ poll.lookups = 0

\* the display message of a failure: the copy of the reason, or for an unset
\* reason the default of the stage; NULL for UserDenied
DisplayMessage ==
    CASE failure.error.reason = TradeSlippage ->
            "The quoted option price is now out of bounds, try again"
      [] failure.error.reason = NetworkChanged ->
            "Your network unexpectedly changed, try again"
      [] failure.error.reason = RpcError -> "An RPC error occurred, try again"
      [] failure.error.reason = NotEnoughFunds ->
            "Your account on " \o displayName(network) \o " doesn't have enough gas"
      [] failure.error.reason = UserDenied -> NULL
      [] failure.error.reason = NoReason /\ failure.stage = Reverted -> "Transaction reverted"
      [] OTHER -> "Failed to send transaction"

\* a failure with a display message
ReportedFailure == failure.def /\ DisplayMessage # NULL

\* C17: for a failure of stage GasEstimate, Wallet or Reverted with a non-null
\* display message the error-report sink is called once, then the notification
\* is updated to the error state with that message, then the error handler, if
\* supplied, is called once, in that order; the error-report sink is called in
\* an invocation exactly when such a message was produced.
C17_FailureFunnel ==
    /\ failure.def => failure.stage \in {GasEstimate, Wallet, Reverted}
    /\ CallCount("postTransactionError") = (IF ReportedFailure THEN 1 ELSE 0)
    /\ ReportedFailure =>
          LET h == IF options.onError THEN 1 ELSE 0
              n == Len(calls)
          IN  /\ n - h - 1 >= 1
              /\ calls[n - h - 1].op = "postTransactionError"
              /\ calls[n - h - 1].stage = failure.stage
              /\ calls[n - h].op = "updateToast"
              /\ calls[n - h].variant = "error"
              /\ calls[n - h].description = DisplayMessage
              /\ options.onError => calls[n].op = "handler"
              /\ CallCount("handler") = h
              /\ CallCount("updateToast") = 1
              /\ toast.state = "error"
              /\ toast.description = DisplayMessage

\* C17 witness: a submission failure without classified reason, reported with
\* the default message of its stage to a caller that supplied an error handler
C17_Witness ==
    /\ ReportedFailure
    /\ failure.stage = Wallet
    /\ failure.error.reason = NoReason
    /\ options.onError
    /\ calls[Len(calls)].op = "handler"
    /\ toast.description = "Failed to send transaction"

\* the base timeout of the network in milliseconds: 10 s, Ethereum 60 s
BaseTimeout == IF network = Ethereum THEN 60000 ELSE 10000

\* the timeout warning is shown and names the base timeout of the network
WarningShown ==
    /\ toast.state = "warning"
    /\ toast.description = "Your transaction took longer than "
                           \o ToString(BaseTimeout \div 1000)
                           \o " seconds, click to view on etherscan"

\* C20 as stated: on every network the timeout warning, which says that the
\* transaction took longer than the base timeout of the network, is shown only
\* when at least that base timeout has elapsed since the submission, time being
\* counted in poll ticks of 250 ms.
C20_WarningAfterTimeout ==
    /\ toast.state = "warning" => WarningShown
    /\ WarningShown => poll.clock >= BaseTimeout

\* C18 as stated: no step of an invocation changes the caller-supplied
\* request object, so that a later invocation given the same object finds it
\* as the first did (a raw transaction without gas limit is still without gas
\* limit and is estimated again).
C18_RequestUnchanged ==
    [][txInputs' = txInputs]_vars

\* what an invocation with the locals c owns: its position, its handle and
\* what it did to it, its poll counter and its results
Own(c) ==
    <<c.pc, c.toastId, c.toast, c.calls, c.gas, c.poll, c.receipt, c.failure, c.ret>>

\* the notification of the handle of c in the store is what the calls of c
\* alone made of it
HandleOwned(c) ==
    c.toastId # 0 =>
        /\ c.toastId \in 1..Len(toasts)
        /\ toasts[c.toastId] = c.toast
        /\ c.toast.created = 1

\* the lookups of c are bounded by its own retry counter
OwnPollCounter(c) ==
    /\ c.poll.n <= MAX_RETRIES
    /\ c.poll.lookups \in {c.poll.n, c.poll.n + 1}
    /\ (c.pc = "done" /\ c.poll.lookups > 0 /\ ~c.receipt.def /\ ~c.failure.def)
          => c.poll.lookups = MAX_RETRIES + 1

\* every started invocation has a handle of its own
HandlesOwned ==
    /\ HandleOwned(Running)
    /\ HandleOwned(parked)
    /\ pc # "idle" => toastId # 0
    /\ parked.pc \notin {"idle", "absent"} => parked.toastId # 0
    /\ (toastId # 0 /\ parked.toastId # 0) => toastId # parked.toastId
    /\ Len(toasts) = (IF toastId # 0 THEN 1 ELSE 0) + (IF parked.toastId # 0 THEN 1 ELSE 0)
    /\ OwnPollCounter(Running)
    /\ OwnPollCounter(parked)

\* a step of the running invocation leaves alone what the other one owns
OtherUntouched ==
    parked'.id = parked.id =>
        /\ Own(parked') = Own(parked)
        /\ parked.toastId # 0 => toasts'[parked.toastId] = toasts[parked.toastId]

=============================================================================
